---- MODULE Spec2Model ----
(***************************************************************************)
(* scripts/youtube_utils.py: download_youtube_audio (the Fetcher) and      *)
(* add_metadata_to_mp3 (the Tagger).                                       *)
(*                                                                         *)
(* A caller thread is idle or inside one call of either function.  The     *)
(* file system is shared.  yt_dlp (extract_info) and mutagen (MP3, ID3.add,*)
(* save) are external: extract_info either raises, or returns a metadata   *)
(* record having or not having produced the mp3 file; MP3() and save()     *)
(* either work or raise.  uuid.uuid4() returns an identifier that it has   *)
(* not returned before.                                                    *)
(***************************************************************************)
EXTENDS Naturals, FiniteSets, Sequences

VARIABLES
    threads,    \* the caller threads that exist (fixed by the initial state)
    disk,       \* path -> file (exists, hasTags, tags)
    used,       \* identifiers uuid4 has returned
    calls,      \* calls started so far
    st,         \* thread -> its position and the locals of its current call
    prev,       \* the last add_metadata_to_mp3 call that saved: arguments and file
    owner,      \* path -> the download call (number) that first wrote it, 0: none
    clash       \* a download call wrote or tagged a path owned by another call

vars == <<threads, disk, used, calls, st, prev, owner, clash>>

----------------------------------------------------------------------------
\* Bounds of the model.

\* How many calls (of either function) the callers make in a run.
MaxCalls == 2

AllThreads == {"t1", "t2"}
Ids        == 1..MaxCalls
Urls       == {"u1", "u2"}
Titles     == {"T1", "T2"}
Uploaders  == {"A1"}
Descs      == {"D1"}
OutputPath == "."

\* A key that the dict does not hold.
Missing == "<missing>"
NoExc   == "<none>"

----------------------------------------------------------------------------
\* Paths and files.

\* A generator that hands out the identifier it handed out before.
ReusedIds(u) == IF u = {} THEN Ids ELSE u

\* uuid.uuid4(): the identifiers it can return, none of them returned before.
FreshIds(u) == Ids \ u

Join(dir, name, ext) == [dir |-> dir, name |-> name, ext |-> ext]

\* os.path.join(output_path, f"{random_filename}.mp3")
AudioPath(dir, name) == Join(dir, name, "mp3")

\* 'outtmpl' with the post-processor's 'preferredcodec' as %(ext)s
OutTmplPath(dir, name) == Join(dir, name, "mp3")

Paths == {AudioPath(OutputPath, i) : i \in Ids}

EmptyTags == [f \in {} |-> 0]

AbsentFile == [exists |-> FALSE, hasTags |-> FALSE, tags |-> EmptyTags]

\* What the transcoder writes: an mp3 without a tag container, or with the
\* encoder's own container.
EncoderTags == [f \in {[key |-> "TSSE", text |-> "Lavf"]} |-> 1]

FreshFiles ==
    { [exists |-> TRUE, hasTags |-> FALSE, tags |-> EmptyTags],
      [exists |-> TRUE, hasTags |-> TRUE,  tags |-> EncoderTags] }

\* os.path.exists
Exists(d, path) == d[path].exists

----------------------------------------------------------------------------
\* Exceptions and the two catch-all handlers.

ExceptionClasses ==
    {"DownloadError", "FileNotFoundError", "KeyError", "MutagenError",
     "HeaderNotFoundError", "OSError"}

\* except Exception as e:   (download_youtube_audio)
DownloadCatches(e) == e \in ExceptionClasses

\* A handler that names one exception class only.
TaggerCatchesKeyErrorOnly(e) == e = "KeyError"

\* except Exception as e:   (add_metadata_to_mp3)
TaggerCatches(e) == e \in ExceptionClasses

----------------------------------------------------------------------------
\* The extractor's metadata record and the Tagger's metadata.

Infos ==
    [title : Titles \cup {Missing},
     uploader : Uploaders \cup {Missing},
     description : Descs \cup {Missing}]

\* With two callers the extractor's records are drawn from a narrower set.
InfosFor(T) ==
    IF Cardinality(T) > 1
    THEN {i \in Infos : i.title \in {"T1", Missing} /\ i.description = Missing}
    ELSE Infos

NoInfo == [title |-> Missing, uploader |-> Missing, description |-> Missing]

\* info['description']: no default for a missing key.
InfoDescriptionNoDefault(info) == info.description

\* info.get('description', '')
InfoGetDescription(info) ==
    IF info.description = Missing THEN "" ELSE info.description

\* info['title'] or info['uploader'] raises KeyError
InfoLookupFails(info) == info.title = Missing \/ info.uploader = Missing

\* metadata = {"title": ..., "author": ..., "description": ...}
BuildMetadata(info) ==
    [title |-> info.title,
     author |-> info.uploader,
     description |-> InfoGetDescription(info)]

Metadatas ==
    [title : Titles \cup {Missing},
     author : Uploaders \cup {Missing},
     description : Descs \cup {Missing}]

\* With two callers the callers' own metadata is drawn from a narrower set.
MetadatasFor(T) ==
    IF Cardinality(T) > 1
    THEN {m \in Metadatas : m.title = "T2" /\ m.description = "D1"}
    ELSE Metadatas

UrlsFor(T) == IF Cardinality(T) > 1 THEN {"u1"} ELSE Urls

NoMetadata == [title |-> Missing, author |-> Missing, description |-> Missing]

\* The mapping with 'author' taken from the title.
DownloadResultAuthorFromTitle(path, info, url) ==
    [audio_path |-> path, title |-> info.title, author |-> info.title, url |-> url]

\* return {'audio_path': ..., 'title': ..., 'author': ..., 'url': ...}
DownloadResult(path, info, url) ==
    [audio_path |-> path, title |-> info.title, author |-> info.uploader, url |-> url]

RetUnset      == [kind |-> "unset"]
RetNone       == [kind |-> "None"]
RetMapping(m) == [kind |-> "mapping", value |-> m]

----------------------------------------------------------------------------
\* ID3 tags: a bag of frames, a frame being its HashKey and its text.

Frame(key, text) == [key |-> key, text |-> text]

\* The five frames with the artist frame built from the title.
TagFramesArtistFromTitle(metadata, url) ==
    << Frame("TIT2", metadata.title),
       Frame("TPE1", metadata.title),
       Frame("TALB", "YouTube"),
       Frame("COMM:desc:eng", metadata.description),
       Frame("COMM:url:eng", url) >>

\* The five frames in the order the Tagger builds them.
TagFrames(metadata, url) ==
    << Frame("TIT2", metadata.title),
       Frame("TPE1", metadata.author),
       Frame("TALB", "YouTube"),
       Frame("COMM:desc:eng", metadata.description),
       Frame("COMM:url:eng", url) >>

\* An add that appends: one more copy of the frame, the others kept.
ID3Append(tags, f) ==
    [g \in DOMAIN tags \cup {f} |->
        IF g \in DOMAIN tags
        THEN (IF g = f THEN tags[g] + 1 ELSE tags[g])
        ELSE 1]

\* ID3.add(frame): the frame takes the place of the frames with its HashKey.
ID3Add(tags, f) ==
    [g \in {h \in DOMAIN tags : h.key # f.key} \cup {f} |->
        IF g = f THEN 1 ELSE tags[g]]

\* The frames 1..n added in order.
RECURSIVE AddFrames(_, _, _)
AddFrames(tags, frames, n) ==
    IF n = 0 THEN tags
    ELSE ID3Add(AddFrames(tags, frames, n - 1), frames[n])

\* How many frames are built and added before metadata[...] raises KeyError.
Applicable(frames) ==
    LET bad == {i \in DOMAIN frames : frames[i].text = Missing}
    IN  IF bad = {} THEN Len(frames)
        ELSE (CHOOSE i \in bad : \A j \in bad : i <= j) - 1

\* How many frames of the bag have this HashKey, and their texts.
CountKey(tags, key) ==
    LET fs == {f \in DOMAIN tags : f.key = key}
        RECURSIVE Sum(_)
        Sum(S) == IF S = {} THEN 0
                  ELSE LET f == CHOOSE x \in S : TRUE IN tags[f] + Sum(S \ {f})
    IN  Sum(fs)

TextsOf(tags, key) == {f.text : f \in {g \in DOMAIN tags : g.key = key}}

----------------------------------------------------------------------------
\* A thread's state.

Idle ==
    [pc |-> "idle", fn |-> "none", call |-> 0,
     url |-> "", name |-> 0, info |-> NoInfo, before |-> {},
     extracted |-> FALSE, checked |-> FALSE,
     mp3_path |-> AudioPath(OutputPath, 0), metadata |-> NoMetadata, tagurl |-> "",
     pre |-> AbsentFile, mem |-> EmptyTags, applied |-> 0, repeat |-> FALSE,
     tagCalls |-> 0, tagStatus |-> "notcalled", tagErr |-> NoExc,
     caught |-> NoExc, escaped |-> NoExc, ret |-> RetUnset]

\* An exception raised in the body of download_youtube_audio.
DownloadRaise(s, e) ==
    IF DownloadCatches(e)
    THEN [s EXCEPT !.pc = "done", !.caught = e, !.ret = RetNone]
    ELSE [s EXCEPT !.pc = "done", !.escaped = e]

\* An exception raised in the body of add_metadata_to_mp3.
TaggerRaise(s, e) ==
    IF TaggerCatches(e)
    THEN [s EXCEPT !.pc = "tagdone", !.tagStatus = "caught", !.tagErr = e]
    ELSE IF s.fn = "download"
         THEN DownloadRaise([s EXCEPT !.tagStatus = "raised", !.tagErr = e], e)
         ELSE [s EXCEPT !.pc = "done", !.tagStatus = "raised", !.tagErr = e,
                        !.escaped = e]

\* A handler that saves what was applied before the failure.
TaggerExceptSaves(d, s) ==
    IF Exists(d, s.mp3_path)
    THEN [d EXCEPT ![s.mp3_path] = [exists |-> TRUE, hasTags |-> TRUE, tags |-> s.mem]]
    ELSE d

\* The Tagger's except block: it prints, the file is left as it is.
TaggerExcept(d, s) == d

\* The file system after `e` was raised in add_metadata_to_mp3.
DiskAfterTaggerRaise(d, s, e) ==
    IF TaggerCatches(e) THEN TaggerExcept(d, s) ELSE d

\* The call of add_metadata_to_mp3(mp3_path, metadata, url).
EnterTagger(s, path, metadata, url) ==
    [s EXCEPT !.pc = "tagopen", !.mp3_path = path, !.metadata = metadata,
              !.tagurl = url, !.tagCalls = @ + 1, !.tagStatus = "running"]

\* The metadata lookup and the Tagger call without the existence check.
AfterExtractNoCheck(s, d) ==
    LET path == AudioPath(OutputPath, s.name) IN
    IF InfoLookupFails(s.info)
    THEN DownloadRaise([s EXCEPT !.checked = TRUE], "KeyError")
    ELSE EnterTagger([s EXCEPT !.checked = TRUE], path, BuildMetadata(s.info), s.url)

\* The existence check and the metadata lookup of download_youtube_audio.
AfterExtract(s, d) ==
    LET path == AudioPath(OutputPath, s.name) IN
    IF ~Exists(d, path) THEN DownloadRaise(s, "FileNotFoundError")
    ELSE IF InfoLookupFails(s.info)
         THEN DownloadRaise([s EXCEPT !.checked = TRUE], "KeyError")
         ELSE EnterTagger([s EXCEPT !.checked = TRUE], path, BuildMetadata(s.info), s.url)

\* A write to `path` by download call `c`.
Wrote(c, path) ==
    /\ owner' = [owner EXCEPT ![path] = IF @ = 0 THEN c ELSE @]
    /\ clash' = (clash \/ owner[path] \notin {0, c})

----------------------------------------------------------------------------
\* Actions.

\* random_filename = str(uuid.uuid4()); ydl_opts = {...}
DownloadStart(t) ==
    /\ t \in threads
    /\ st[t].pc = "idle"
    /\ calls < MaxCalls
    /\ \E url \in UrlsFor(threads), name \in FreshIds(used) :
          /\ used' = used \cup {name}
          /\ st' = [st EXCEPT ![t] =
                      [Idle EXCEPT !.pc = "extract", !.fn = "download",
                                   !.call = calls + 1, !.url = url, !.name = name,
                                   !.before = {p \in Paths : Exists(disk, p)}]]
    /\ calls' = calls + 1
    /\ UNCHANGED <<threads, disk, prev, owner, clash>>

\* info = ydl.extract_info(url, download=True) raises.
ExtractRaises(t) ==
    /\ t \in threads
    /\ st[t].pc = "extract"
    /\ st' = [st EXCEPT ![t] = DownloadRaise(@, "DownloadError")]
    /\ UNCHANGED <<threads, disk, used, calls, prev, owner, clash>>

\* info = ydl.extract_info(url, download=True) returns, the mp3 written.
ExtractWrites(t) ==
    /\ t \in threads
    /\ st[t].pc = "extract"
    /\ \E info \in InfosFor(threads), file \in FreshFiles :
          LET path == OutTmplPath(OutputPath, st[t].name) IN
          /\ disk' = [disk EXCEPT ![path] = file]
          /\ Wrote(st[t].call, path)
          /\ st' = [st EXCEPT ![t] = [@ EXCEPT !.pc = "check", !.info = info,
                                               !.extracted = TRUE]]
    /\ UNCHANGED <<threads, used, calls, prev>>

\* info = ydl.extract_info(url, download=True) returns, no mp3 written.
ExtractNoFile(t) ==
    /\ t \in threads
    /\ st[t].pc = "extract"
    /\ \E info \in InfosFor(threads) :
          st' = [st EXCEPT ![t] = [@ EXCEPT !.pc = "check", !.info = info,
                                            !.extracted = TRUE]]
    /\ UNCHANGED <<threads, disk, used, calls, prev, owner, clash>>

\* if not os.path.exists(audio_path): raise ...; metadata = {...};
\* add_metadata_to_mp3(audio_path, metadata, url)
CheckAndCall(t) ==
    /\ t \in threads
    /\ st[t].pc = "check"
    /\ st' = [st EXCEPT ![t] = AfterExtract(@, disk)]
    /\ UNCHANGED <<threads, disk, used, calls, prev, owner, clash>>

\* A caller's own call of add_metadata_to_mp3.
TagStart(t) ==
    /\ t \in threads
    /\ st[t].pc = "idle"
    /\ calls < MaxCalls
    /\ \E path \in Paths, metadata \in MetadatasFor(threads), url \in UrlsFor(threads) :
          st' = [st EXCEPT ![t] =
                   EnterTagger([Idle EXCEPT !.fn = "tag", !.call = calls + 1],
                               path, metadata, url)]
    /\ calls' = calls + 1
    /\ UNCHANGED <<threads, disk, used, prev, owner, clash>>

\* audio = MP3(mp3_path, ID3=ID3) raises.
TagOpenRaises(t) ==
    /\ t \in threads
    /\ st[t].pc = "tagopen"
    /\ LET s == [st[t] EXCEPT !.pre = disk[st[t].mp3_path]]
           e == IF Exists(disk, s.mp3_path) THEN "HeaderNotFoundError"
                ELSE "MutagenError"
       IN  /\ st' = [st EXCEPT ![t] = TaggerRaise(s, e)]
           /\ disk' = DiskAfterTaggerRaise(disk, s, e)
    /\ UNCHANGED <<threads, used, calls, prev, owner, clash>>

\* audio = MP3(mp3_path, ID3=ID3); add_tags() if there are none; the five
\* audio.tags.add(...), up to the first metadata[...] that raises.
TagOpen(t) ==
    /\ t \in threads
    /\ st[t].pc = "tagopen"
    /\ Exists(disk, st[t].mp3_path)
    /\ LET s      == st[t]
           file   == disk[s.mp3_path]
           tags0  == IF file.hasTags THEN file.tags ELSE EmptyTags
           frames == TagFrames(s.metadata, s.tagurl)
           n      == Applicable(frames)
           s1     == [s EXCEPT !.pre = file, !.applied = n,
                               !.mem = AddFrames(tags0, frames, n),
                               !.repeat = /\ prev.valid
                                          /\ prev.path = s.mp3_path
                                          /\ prev.metadata = s.metadata
                                          /\ prev.url = s.tagurl
                                          /\ prev.file = file]
       IN  IF n < Len(frames)
           THEN /\ st' = [st EXCEPT ![t] = TaggerRaise(s1, "KeyError")]
                /\ disk' = DiskAfterTaggerRaise(disk, s1, "KeyError")
           ELSE /\ st' = [st EXCEPT ![t] = [s1 EXCEPT !.pc = "tagsave"]]
                /\ disk' = disk
    /\ UNCHANGED <<threads, used, calls, prev, owner, clash>>

\* audio.save()
TagSave(t) ==
    /\ t \in threads
    /\ st[t].pc = "tagsave"
    /\ LET s    == st[t]
           file == [exists |-> TRUE, hasTags |-> TRUE, tags |-> s.mem]
       IN  /\ disk' = [disk EXCEPT ![s.mp3_path] = file]
           /\ prev' = [valid |-> TRUE, path |-> s.mp3_path, metadata |-> s.metadata,
                       url |-> s.tagurl, file |-> file]
           /\ IF s.fn = "download"
              THEN Wrote(s.call, s.mp3_path)
              ELSE UNCHANGED <<owner, clash>>
           /\ st' = [st EXCEPT ![t] = [@ EXCEPT !.pc = "tagdone", !.tagStatus = "ok"]]
    /\ UNCHANGED <<threads, used, calls>>

\* audio.save() raises.
TagSaveRaises(t) ==
    /\ t \in threads
    /\ st[t].pc = "tagsave"
    /\ st' = [st EXCEPT ![t] = TaggerRaise(@, "OSError")]
    /\ disk' = DiskAfterTaggerRaise(disk, st[t], "OSError")
    /\ UNCHANGED <<threads, used, calls, prev, owner, clash>>

\* add_metadata_to_mp3 returns; download_youtube_audio prints and returns
\* its mapping.
TagReturn(t) ==
    /\ t \in threads
    /\ st[t].pc = "tagdone"
    /\ LET s == st[t] IN
       st' = [st EXCEPT ![t] =
                IF s.fn = "download"
                THEN [s EXCEPT !.pc = "done",
                               !.ret = RetMapping(DownloadResult(
                                           AudioPath(OutputPath, s.name), s.info, s.url))]
                ELSE [s EXCEPT !.pc = "done", !.ret = RetNone]]
    /\ UNCHANGED <<threads, disk, used, calls, prev, owner, clash>>

\* The caller has its result and is free for its next call.
Finish(t) ==
    /\ t \in threads
    /\ st[t].pc = "done"
    /\ st' = [st EXCEPT ![t] = Idle]
    /\ UNCHANGED <<threads, disk, used, calls, prev, owner, clash>>

----------------------------------------------------------------------------

NoPrev ==
    [valid |-> FALSE, path |-> AudioPath(OutputPath, 0), metadata |-> NoMetadata,
     url |-> "", file |-> AbsentFile]

InitWith(T) ==
    /\ threads = T
    /\ disk = [p \in Paths |-> AbsentFile]
    /\ used = {}
    /\ calls = 0
    /\ st = [t \in AllThreads |-> Idle]
    /\ prev = NoPrev
    /\ owner = [p \in Paths |-> 0]
    /\ clash = FALSE

\* One caller: the calls follow one another.
Init == InitWith({"t1"})

\* Two callers: their calls interleave.
InitConc == InitWith(AllThreads)

Next ==
    \/ \E t \in AllThreads : DownloadStart(t)
    \/ \E t \in AllThreads : ExtractRaises(t)
    \/ \E t \in AllThreads : ExtractWrites(t)
    \/ \E t \in AllThreads : ExtractNoFile(t)
    \/ \E t \in AllThreads : CheckAndCall(t)
    \/ \E t \in AllThreads : TagStart(t)
    \/ \E t \in AllThreads : TagOpenRaises(t)
    \/ \E t \in AllThreads : TagOpen(t)
    \/ \E t \in AllThreads : TagSave(t)
    \/ \E t \in AllThreads : TagSaveRaises(t)
    \/ \E t \in AllThreads : TagReturn(t)
    \/ \E t \in AllThreads : Finish(t)

Spec == Init /\ [][Next]_vars

SpecConc == InitConc /\ [][Next]_vars

----------------------------------------------------------------------------
\* Properties.

InDownload(s) == s.fn = "download"
Returned(s)   == s.pc = "done"
TaggerOver(s) == s.pc \in {"tagdone", "done"} /\ s.tagCalls > 0
OwnPath(s)    == AudioPath(OutputPath, s.name)
ResultKeys    == {"audio_path", "title", "author", "url"}

\* C1: no exception escapes download_youtube_audio or add_metadata_to_mp3:
\* every exception raised in the Fetcher's body is caught there and the
\* Fetcher returns None; every exception raised in the Tagger is caught
\* there and the Tagger returns normally.
C1_NoExceptionEscapes ==
    \A t \in threads :
        LET s == st[t] IN
        /\ s.escaped = NoExc
        /\ s.tagStatus # "raised"
        /\ s.tagErr # NoExc => s.tagStatus = "caught" /\ TaggerOver(s)
        /\ s.caught # NoExc => Returned(s) /\ InDownload(s) /\ s.ret = RetNone
        /\ Returned(s) /\ InDownload(s) =>
              \/ s.ret = RetNone
              \/ s.ret.kind = "mapping" /\ DOMAIN s.ret.value = ResultKeys

\* A Fetcher call whose metadata lookup raised KeyError has returned None.
C1_Witness ==
    \E t \in threads :
        /\ Returned(st[t]) /\ InDownload(st[t])
        /\ st[t].caught = "KeyError"
        /\ st[t].ret = RetNone

\* C2: whenever download_youtube_audio returns a result, the file at its
\* audio_path exists and its Title and Artist tags are the result's title
\* and author.
C2_ResultTagsMatch ==
    \A t \in threads :
        LET s == st[t] IN
        Returned(s) /\ InDownload(s) /\ s.ret.kind = "mapping" =>
            LET file == disk[s.ret.value.audio_path] IN
            /\ file.exists
            /\ file.hasTags
            /\ TextsOf(file.tags, "TIT2") = {s.ret.value.title}
            /\ TextsOf(file.tags, "TPE1") = {s.ret.value.author}

\* The files that exist now and did not when the call began.
NewFiles(s) == {p \in Paths : Exists(disk, p)} \ s.before

\* C3: a call of download_youtube_audio leaves one new file when it returns
\* a result and no new file when it returns None.
C3_OneFileOrNone ==
    \A t \in threads :
        LET s == st[t] IN
        Returned(s) /\ InDownload(s) =>
            /\ s.ret = RetNone => NewFiles(s) = {}
            /\ s.ret.kind = "mapping" => Cardinality(NewFiles(s)) = 1

\* C4: within one call of download_youtube_audio the Tagger is called at
\* most once, and only after extract_info has returned and the mp3 exists;
\* when the mp3 is absent after extract_info the Tagger is not called, None
\* is returned and nothing escapes.
C4_TaggerOnlyAfterCheck ==
    \A t \in threads :
        LET s == st[t] IN
        InDownload(s) =>
            /\ s.tagCalls <= 1
            /\ s.tagCalls = 1 =>
                  /\ s.extracted
                  /\ Exists(disk, OwnPath(s))
                  /\ s.mp3_path = OwnPath(s)
            /\ s.pc \in {"tagopen", "tagsave", "tagdone"} => s.tagCalls = 1
            /\ Returned(s) /\ s.extracted /\ ~Exists(disk, OwnPath(s)) =>
                  /\ s.tagCalls = 0
                  /\ s.ret = RetNone
                  /\ s.escaped = NoExc

\* extract_info returned without the mp3: the call returned None, the
\* Tagger never called.
C4_Witness ==
    \E t \in threads :
        LET s == st[t] IN
        /\ Returned(s) /\ InDownload(s) /\ s.extracted
        /\ ~Exists(disk, OwnPath(s))
        /\ s.caught = "FileNotFoundError"
        /\ s.tagCalls = 0

C6_NoSharedPath ==
    /\ ~clash
    /\ \A t \in threads :
          InDownload(st[t]) =>
              /\ st[t].name \in used
              /\ owner[OwnPath(st[t])] \in {0, st[t].call}
    /\ \A t, u \in threads :
          t # u /\ InDownload(st[t]) /\ InDownload(st[u]) => st[t].name # st[u].name

\* Two calls are interleaved, each about to save the tags of its own file.
C6_Witness ==
    /\ \A t \in AllThreads :
          t \in threads /\ InDownload(st[t]) /\ st[t].pc = "tagsave"
    /\ Cardinality({owner[p] : p \in Paths} \ {0}) = 2

C8_Idempotent ==
    \A t \in threads :
        LET s == st[t]
            file == disk[s.mp3_path]
        IN  s.pc = "tagdone" /\ s.tagStatus = "ok" /\ s.repeat =>
                /\ file = s.pre
                /\ file = prev.file
                /\ CountKey(file.tags, "COMM:desc:eng") = 1
                /\ CountKey(file.tags, "COMM:url:eng") = 1
                /\ \A f \in DOMAIN file.tags : file.tags[f] = 1

\* The second of two calls with the same arguments has saved.
C8_Witness ==
    \E t \in threads :
        /\ st[t].pc = "tagdone" /\ st[t].tagStatus = "ok" /\ st[t].repeat
        /\ st[t].fn = "tag"

====
